---- MODULE Spec2Model ----
(***************************************************************************)
(* Model of the two pieces of the repository:                              *)
(*   - ui/components/SettingsDialog.tsx : the Settings Editor (a React     *)
(*     component with two asynchronous network operations),                *)
(*   - src/lib/providers/openrouter.ts  : the Provider Loader.             *)
(*                                                                         *)
(* JavaScript values: a string is a TLA+ string, null/undefined is Null.   *)
(* A provider mapping (a JS object) is the sequence of its entries in      *)
(* Object.keys order, with distinct keys.                                  *)
(***************************************************************************)
EXTENDS Naturals, Sequences, FiniteSets

VARIABLES
    \* ---- Settings Editor: props and React state (SettingsDialog.tsx:82-93)
    isOpen,                          \* prop isOpen, owned by the parent
    config,                          \* useState<SettingsType | null>(null)
    chatModels,                      \* useState({})
    embeddingModels,                 \* useState({})
    selectedChatModelProvider,       \* useState<string | null>(null)
    selectedChatModel,
    selectedEmbeddingModelProvider,
    selectedEmbeddingModel,
    customOpenAIApiKey,              \* useState('')
    customOpenAIBaseURL,             \* useState('')
    isLoading,                       \* useState(false)
    isUpdating,                      \* useState(false)
    \* ---- Settings Editor: environment
    localStorage,                    \* window.localStorage, key -> string or Null
    fetching,                        \* GET /config calls (fetchConfig) in flight
    posts,                           \* POST /config calls in flight, each with the
                                     \* values its handleSubmit closure captured
    reloaded,                        \* window.location.reload() has been called
    formEdits,                       \* change events the form has handled
    lastEvent,                       \* the last handler that ran and how it ended
    \* ---- Provider Loader: process-wide configuration and the last call
    openRouterApiKey,                \* getOpenRouterApiKey()
    httpReferer,                     \* getOpenRouterHttpReferer()
    appName,                         \* getOpenRouterAppName()
    loaderPc,                        \* "idle" | "returned" ("threw": the promise rejected)
    loaderResult,                    \* the mapping the last call returned
    clientsConstructed,              \* `new ChatOpenAI` was attempted by the last call
    loaderLogged                     \* logger.error was called by the last call

editorVars ==
    <<isOpen, config, chatModels, embeddingModels, selectedChatModelProvider,
      selectedChatModel, selectedEmbeddingModelProvider, selectedEmbeddingModel,
      customOpenAIApiKey, customOpenAIBaseURL, isLoading, isUpdating,
      localStorage, fetching, posts, reloaded, formEdits,
      lastEvent>>

loaderVars ==
    <<openRouterApiKey, httpReferer, appName, loaderPc, loaderResult,
      clientsConstructed, loaderLogged>>

vars == <<editorVars, loaderVars>>

----------------------------------------------------------------------------
\* Bounds of the model

\* GET /config calls that may be in flight together
MaxInFlight == 2
\* scalar fields of the document that may differ from the fetched document
MaxEdits == 1
\* change events (selections and typed values) the form handles in one page life
MaxFormEdits == 1

----------------------------------------------------------------------------
\* JavaScript values and operators

Null == "<null>"

\* JS truthiness of a string-or-null value
Truthy(s) == s /= Null /\ s /= ""

\* a || b on string-or-null values
OrElse(a, b) == IF Truthy(a) THEN a ELSE b

CustomOpenAI == "custom_openai"

ModelInfo(n, d) == [name |-> n, displayName |-> d]

ProviderEntry(k, ms) == [key |-> k, models |-> ms]

\* Object.keys(m)
ObjectKeys(m) == [i \in 1..Len(m) |-> m[i].key]

KeySet(m) == {m[i].key : i \in 1..Len(m)}

\* k in m
HasKey(m, k) == k \in KeySet(m)

\* m[k], for a key of m
Get(m, k) == (CHOOSE e \in {m[i] : i \in 1..Len(m)} : e.key = k).models

\* m?.[k]?.[0]?.name ?? ''
FirstModelNameOrEmpty(m, k) ==
    IF HasKey(m, k) /\ Len(Get(m, k)) > 0 THEN Get(m, k)[1].name ELSE ""

\* keys.length > 0 ? keys[0] : ''
FirstKeyOrEmpty(m) == IF Len(ObjectKeys(m)) > 0 THEN ObjectKeys(m)[1] ELSE ""

----------------------------------------------------------------------------
\* The Configuration Document (interface SettingsType)

ScalarFields ==
    {"openaiApiKey", "groqApiKey", "anthropicApiKey", "geminiApiKey",
     "openrouterApiKey", "openrouterHttpReferer", "openrouterAppName",
     "ollamaApiUrl"}

SettingsType(chat, emb) ==
    [chatModelProviders |-> chat,
     embeddingModelProviders |-> emb,
     fields |-> [f \in ScalarFields |-> ""]]

Mx == ModelInfo("x", "X")
My == ModelInfo("y", "Y")

\* the documents GET /config may answer with
DocA ==
    SettingsType(
        <<ProviderEntry("a", <<Mx>>), ProviderEntry("b", <<>>)>>,
        <<ProviderEntry("a", <<Mx, My>>), ProviderEntry("b", <<>>),
          ProviderEntry(CustomOpenAI, <<My>>)>>)

DocB ==
    SettingsType(
        <<ProviderEntry("b", <<>>), ProviderEntry("a", <<My, Mx>>),
          ProviderEntry(CustomOpenAI, <<Mx>>)>>,
        <<>>)

DocC ==
    SettingsType(
        <<>>,
        <<ProviderEntry("b", <<>>), ProviderEntry("a", <<My, Mx>>)>>)

Docs == {DocA, DocB, DocC}

\* the provider identifiers and model names that occur in Docs
ProviderIds == {"a", "b", CustomOpenAI}
ModelIds == {"x", "y"}

\* what the user may type into a free-text input
TypedValues == {"", "t"}

----------------------------------------------------------------------------
\* Local storage

SelectionKeys ==
    {"chatModelProvider", "chatModel", "embeddingModelProvider", "embeddingModel"}

CustomKeys == {"openAIApiKey", "openAIBaseURL"}

\* a key of local storage this component never names
OtherKey == "theme"

StorageKeys == SelectionKeys \cup CustomKeys \cup {OtherKey}

\* a browser that never saved settings
FreshStorage == [k \in StorageKeys |-> IF k = OtherKey THEN "dark" ELSE Null]

\* contents left by earlier sessions
StoredA ==
    [FreshStorage EXCEPT !["chatModelProvider"] = "a",
                         !["embeddingModel"] = "y",
                         !["openAIApiKey"] = "k"]

StoredCustom ==
    [FreshStorage EXCEPT !["chatModelProvider"] = CustomOpenAI,
                         !["chatModel"] = "m",
                         !["embeddingModelProvider"] = "z",
                         !["embeddingModel"] = "",
                         !["openAIApiKey"] = "",
                         !["openAIBaseURL"] = "u"]

InitialStorages == {FreshStorage, StoredA, StoredCustom}

\* localStorage.getItem(k)
GetItem(k) == localStorage[k]

\* localStorage.setItem(k, v) applied to the storage s
SetItem(s, k, v) == [s EXCEPT ![k] = v]

\* SetItemIfTruthy without its condition
SetItemIfTruthy_Always(s, k, v) == SetItem(s, k, v)

\* if (v) localStorage.setItem(k, v)
SetItemIfTruthy(s, k, v) == IF Truthy(v) THEN SetItem(s, k, v) ELSE s

Event(op, error) == [op |-> op, error |-> error]

----------------------------------------------------------------------------
\* Settings Editor: rendering (the JSX returned by SettingsDialog)

\* config === null
NullConfig == [null |-> TRUE]

\* {config && !isLoading && ( ...the editable fields... )}, inside a dialog
\* that is shown only while isOpen
FormShown == isOpen /\ config /= NullConfig /\ ~isLoading

\* {isLoading && ( ...spinner... )}
SpinnerShown == isOpen /\ isLoading

\* <button onClick={handleSubmit} disabled={isLoading || isUpdating}>
SaveDisabled == isLoading \/ isUpdating

\* the option a controlled <select> displays: its value when that is one of
\* the options, else the first option
Displayed(value, options) ==
    IF \E i \in 1..Len(options) : options[i] = value THEN value
    ELSE IF Len(options) > 0 THEN options[1] ELSE Null

\* the enabled options of a model picker: the provider's models; a provider
\* that is unknown or has no model yields one disabled placeholder option
ModelOptions(m, provider) ==
    IF HasKey(m, provider)
    THEN [i \in 1..Len(Get(m, provider)) |-> Get(m, provider)[i].name]
    ELSE <<>>

\* the chat model picker is rendered (and not the free-text inputs)
ChatModelPickerShown ==
    Truthy(selectedChatModelProvider) /\ selectedChatModelProvider /= CustomOpenAI

\* the free-text model name, key and base URL inputs are rendered
CustomInputsShown ==
    Truthy(selectedChatModelProvider) /\ selectedChatModelProvider = CustomOpenAI

EmbeddingModelPickerShown == Truthy(selectedEmbeddingModelProvider)

----------------------------------------------------------------------------
\* Settings Editor: open and close

Init_Editor ==
    /\ isOpen = FALSE
    /\ config = NullConfig
    /\ chatModels = <<>>
    /\ embeddingModels = <<>>
    /\ selectedChatModelProvider = Null
    /\ selectedChatModel = Null
    /\ selectedEmbeddingModelProvider = Null
    /\ selectedEmbeddingModel = Null
    /\ customOpenAIApiKey = ""
    /\ customOpenAIBaseURL = ""
    /\ isLoading = FALSE
    /\ isUpdating = FALSE
    /\ fetching = 0
    /\ posts = <<>>
    /\ reloaded = FALSE
    /\ formEdits = 0
    /\ lastEvent = Event("mount", "none")

selectionVars ==
    <<selectedChatModelProvider, selectedChatModel,
      selectedEmbeddingModelProvider, selectedEmbeddingModel,
      customOpenAIApiKey, customOpenAIBaseURL>>

documentVars == <<config, chatModels, embeddingModels>>

\* The parent sets isOpen; the effect on [isOpen] runs fetchConfig up to its
\* first await.
Open ==
    /\ ~reloaded
    /\ ~isOpen
    /\ fetching < MaxInFlight
    /\ isOpen' = TRUE
    /\ isLoading' = TRUE
    /\ fetching' = fetching + 1
    /\ lastEvent' = Event("open", "none")
    /\ UNCHANGED <<documentVars, selectionVars, isUpdating, localStorage,
                   posts, reloaded, formEdits, loaderVars>>

\* Dialog onClose
Close ==
    /\ ~reloaded
    /\ isOpen
    /\ isOpen' = FALSE
    /\ lastEvent' = Event("close", "none")
    /\ UNCHANGED <<documentVars, selectionVars, isLoading, isUpdating,
                   localStorage, fetching, posts, reloaded,
                   formEdits, loaderVars>>

----------------------------------------------------------------------------
\* Settings Editor: fetchConfig (the effect on [isOpen])
\*
\* fetchConfig suspends twice, at `await fetch(...)` and at `await res.json()`;
\* it reads and writes nothing between the two, and a rejection of either
\* lands in the same catch block, so one in-flight call is one unit of
\* `fetching` that either resolves with the decoded document or rejects.

\* FetchRejects without the finally block
FetchRejects_StaysLoading ==
    /\ ~reloaded
    /\ fetching > 0
    /\ fetching' = fetching - 1
    /\ lastEvent' = Event("fetchConfig", "caught")
    /\ UNCHANGED <<isOpen, documentVars, selectionVars, isLoading, isUpdating,
                   localStorage, posts, reloaded, formEdits, loaderVars>>

\* `await fetch(...)` or `await res.json()` rejects:
\* catch (error) { console.error(...) } finally { setIsLoading(false) }
FetchRejects ==
    /\ ~reloaded
    /\ fetching > 0
    /\ fetching' = fetching - 1
    /\ isLoading' = FALSE
    /\ lastEvent' = Event("fetchConfig", "caught")
    /\ UNCHANGED <<isOpen, documentVars, selectionVars, isUpdating,
                   localStorage, posts, reloaded, formEdits, loaderVars>>

\* DefaultProvider with the operands of || exchanged
DefaultProvider_FirstKeyWins(stored, providers) ==
    OrElse(FirstKeyOrEmpty(providers), stored)

\* localStorage.getItem(providerKey) || (keys.length > 0 ? keys[0] : '')
DefaultProvider(stored, providers) == OrElse(stored, FirstKeyOrEmpty(providers))

\* localStorage.getItem(modelKey) || (providers?.[provider]?.[0]?.name ?? '')
DefaultModel(stored, providers, provider) ==
    OrElse(stored, FirstModelNameOrEmpty(providers, provider))

\* `await res.json()` resolves with the document data: the rest of the try
\* block, then finally { setIsLoading(false) }
FetchResolves(data) ==
    /\ ~reloaded
    /\ fetching > 0
    /\ fetching' = fetching - 1
    /\ config' = data
    /\ LET chatModelProvider ==
               DefaultProvider(GetItem("chatModelProvider"), data.chatModelProviders)
           embeddingModelProvider ==
               DefaultProvider(GetItem("embeddingModelProvider"),
                               data.embeddingModelProviders)
       IN /\ selectedChatModelProvider' = chatModelProvider
          /\ selectedChatModel' =
                 DefaultModel(GetItem("chatModel"), data.chatModelProviders,
                              chatModelProvider)
          /\ selectedEmbeddingModelProvider' = embeddingModelProvider
          /\ selectedEmbeddingModel' =
                 DefaultModel(GetItem("embeddingModel"),
                              data.embeddingModelProviders, embeddingModelProvider)
    /\ customOpenAIApiKey' = OrElse(GetItem("openAIApiKey"), "")
    /\ customOpenAIBaseURL' = OrElse(GetItem("openAIBaseURL"), "")
    /\ chatModels' = data.chatModelProviders
    /\ embeddingModels' = data.embeddingModelProviders
    /\ isLoading' = FALSE
    /\ lastEvent' = Event("fetchConfig", "none")
    /\ UNCHANGED <<isOpen, isUpdating, localStorage, posts, reloaded,
                   formEdits, loaderVars>>

----------------------------------------------------------------------------
\* Settings Editor: the pickers and inputs of the form

\* what no change handler of the form touches
formFrame ==
    <<isOpen, chatModels, embeddingModels, isLoading, isUpdating, localStorage,
      fetching, posts, reloaded, loaderVars>>

\* a change event reaches a control of the rendered form
FormChange ==
    /\ ~reloaded
    /\ FormShown
    /\ formEdits < MaxFormEdits
    /\ formEdits' = formEdits + 1
    /\ UNCHANGED formFrame

\* SelectChatProvider without the 'custom_openai' branch, as the embedding
\* picker is written
SelectChatProvider_NoCustomBranch(v) ==
    /\ FormChange
    /\ HasKey(config.chatModelProviders, v)
    /\ v /= Displayed(selectedChatModelProvider,
                      ObjectKeys(config.chatModelProviders))
    /\ selectedChatModelProvider' = v
    /\ IF Len(Get(config.chatModelProviders, v)) > 0
       THEN /\ selectedChatModel' = Get(config.chatModelProviders, v)[1].name
            /\ lastEvent' = Event("selectChatProvider", "none")
       ELSE /\ UNCHANGED selectedChatModel
            /\ lastEvent' = Event("selectChatProvider", "uncaught")
    /\ UNCHANGED <<config, selectedEmbeddingModelProvider,
                   selectedEmbeddingModel, customOpenAIApiKey,
                   customOpenAIBaseURL>>

\* onChange of the chat provider <Select>
SelectChatProvider(v) ==
    /\ FormChange
    /\ HasKey(config.chatModelProviders, v)
    /\ v /= Displayed(selectedChatModelProvider,
                      ObjectKeys(config.chatModelProviders))
    /\ selectedChatModelProvider' = v
    /\ IF v = CustomOpenAI
       THEN /\ selectedChatModel' = ""
            /\ lastEvent' = Event("selectChatProvider", "none")
       ELSE IF Len(Get(config.chatModelProviders, v)) > 0
       THEN /\ selectedChatModel' = Get(config.chatModelProviders, v)[1].name
            /\ lastEvent' = Event("selectChatProvider", "none")
       \* config.chatModelProviders[v][0] is undefined: reading .name throws
       \* a TypeError out of the handler, after the provider was set
       ELSE /\ UNCHANGED selectedChatModel
            /\ lastEvent' = Event("selectChatProvider", "uncaught")
    /\ UNCHANGED <<config, selectedEmbeddingModelProvider,
                   selectedEmbeddingModel, customOpenAIApiKey,
                   customOpenAIBaseURL>>

\* onChange of the chat model <Select>
SelectChatModel(v) ==
    /\ FormChange
    /\ ChatModelPickerShown
    /\ LET options == ModelOptions(config.chatModelProviders,
                                   selectedChatModelProvider)
       IN /\ \E i \in 1..Len(options) : options[i] = v
          /\ v /= Displayed(selectedChatModel, options)
    /\ selectedChatModel' = v
    /\ lastEvent' = Event("selectChatModel", "none")
    /\ UNCHANGED <<config, selectedChatModelProvider,
                   selectedEmbeddingModelProvider, selectedEmbeddingModel,
                   customOpenAIApiKey, customOpenAIBaseURL>>

\* onChange of the free-text "Model name" <Input>
TypeChatModel(v) ==
    /\ FormChange
    /\ CustomInputsShown
    /\ v /= selectedChatModel
    /\ selectedChatModel' = v
    /\ lastEvent' = Event("typeChatModel", "none")
    /\ UNCHANGED <<config, selectedChatModelProvider,
                   selectedEmbeddingModelProvider, selectedEmbeddingModel,
                   customOpenAIApiKey, customOpenAIBaseURL>>

\* onChange of the "Custom OpenAI API Key" <Input>
TypeCustomOpenAIApiKey(v) ==
    /\ FormChange
    /\ CustomInputsShown
    /\ v /= customOpenAIApiKey
    /\ customOpenAIApiKey' = v
    /\ lastEvent' = Event("typeCustomOpenAIApiKey", "none")
    /\ UNCHANGED <<config, selectedChatModelProvider, selectedChatModel,
                   selectedEmbeddingModelProvider, selectedEmbeddingModel,
                   customOpenAIBaseURL>>

\* onChange of the "Custom OpenAI Base URL" <Input>
TypeCustomOpenAIBaseURL(v) ==
    /\ FormChange
    /\ CustomInputsShown
    /\ v /= customOpenAIBaseURL
    /\ customOpenAIBaseURL' = v
    /\ lastEvent' = Event("typeCustomOpenAIBaseURL", "none")
    /\ UNCHANGED <<config, selectedChatModelProvider, selectedChatModel,
                   selectedEmbeddingModelProvider, selectedEmbeddingModel,
                   customOpenAIApiKey>>

\* onChange of the embedding provider <Select>
SelectEmbeddingProvider(v) ==
    /\ FormChange
    /\ HasKey(config.embeddingModelProviders, v)
    /\ v /= Displayed(selectedEmbeddingModelProvider,
                      ObjectKeys(config.embeddingModelProviders))
    /\ selectedEmbeddingModelProvider' = v
    /\ IF Len(Get(config.embeddingModelProviders, v)) > 0
       THEN /\ selectedEmbeddingModel' =
                   Get(config.embeddingModelProviders, v)[1].name
            /\ lastEvent' = Event("selectEmbeddingProvider", "none")
       \* config.embeddingModelProviders[v][0] is undefined: reading .name
       \* throws a TypeError out of the handler, after the provider was set
       ELSE /\ UNCHANGED selectedEmbeddingModel
            /\ lastEvent' = Event("selectEmbeddingProvider", "uncaught")
    /\ UNCHANGED <<config, selectedChatModelProvider, selectedChatModel,
                   customOpenAIApiKey, customOpenAIBaseURL>>

\* onChange of the embedding model <Select>
SelectEmbeddingModel(v) ==
    /\ FormChange
    /\ EmbeddingModelPickerShown
    /\ LET options == ModelOptions(config.embeddingModelProviders,
                                   selectedEmbeddingModelProvider)
       IN /\ \E i \in 1..Len(options) : options[i] = v
          /\ v /= Displayed(selectedEmbeddingModel, options)
    /\ selectedEmbeddingModel' = v
    /\ lastEvent' = Event("selectEmbeddingModel", "none")
    /\ UNCHANGED <<config, selectedChatModelProvider, selectedChatModel,
                   selectedEmbeddingModelProvider, customOpenAIApiKey,
                   customOpenAIBaseURL>>

\* the scalar fields of c that are not empty
EditedFields(c) == {f \in ScalarFields : c.fields[f] /= ""}

\* onChange of one of the eight credential / URL <Input>s:
\* setConfig({...config, [f]: v})
EditConfigField(f, v) ==
    /\ FormChange
    /\ v /= config.fields[f]
    /\ config' = [config EXCEPT !.fields[f] = v]
    /\ Cardinality(EditedFields(config')) <= MaxEdits
    /\ lastEvent' = Event("editConfigField", "none")
    /\ UNCHANGED selectionVars

----------------------------------------------------------------------------
\* Settings Editor: handleSubmit

\* what the handleSubmit closure holds across `await fetch(..., POST)`: the
\* request body and the state values of the render it was created in
Submission ==
    [body |-> config,
     chatModelProvider |-> selectedChatModelProvider,
     chatModel |-> selectedChatModel,
     embeddingModelProvider |-> selectedEmbeddingModelProvider,
     embeddingModel |-> selectedEmbeddingModel,
     openAIApiKey |-> customOpenAIApiKey,
     openAIBaseURL |-> customOpenAIBaseURL]

\* Submit without the `if (!config) return` guard
Submit_NoConfigGuard ==
    /\ ~reloaded
    /\ isOpen
    /\ ~SaveDisabled
    /\ isUpdating' = TRUE
    /\ posts' = Append(posts, Submission)
    /\ lastEvent' = Event("handleSubmit", "none")
    /\ UNCHANGED <<isOpen, documentVars, selectionVars, isLoading,
                   localStorage, fetching, reloaded, formEdits, loaderVars>>

\* a click on the save button: handleSubmit up to its await
Submit ==
    /\ ~reloaded
    /\ isOpen
    /\ ~SaveDisabled
    /\ IF config = NullConfig
       \* if (!config) return;
       THEN /\ lastEvent' = Event("handleSubmit", "returned")
            /\ UNCHANGED <<isUpdating, posts>>
       ELSE /\ isUpdating' = TRUE
            /\ posts' = Append(posts, Submission)
            /\ lastEvent' = Event("handleSubmit", "none")
    /\ UNCHANGED <<isOpen, documentVars, selectionVars, isLoading,
                   localStorage, fetching, reloaded, formEdits, loaderVars>>

\* the six writes that follow the await, on the storage s, for the
\* submission p
PersistSelections(s, p) ==
    LET s1 == SetItemIfTruthy(s, "chatModelProvider", p.chatModelProvider)
        s2 == SetItemIfTruthy(s1, "chatModel", p.chatModel)
        s3 == SetItemIfTruthy(s2, "embeddingModelProvider", p.embeddingModelProvider)
        s4 == SetItemIfTruthy(s3, "embeddingModel", p.embeddingModel)
        s5 == SetItem(s4, "openAIApiKey", p.openAIApiKey)
    IN SetItem(s5, "openAIBaseURL", p.openAIBaseURL)

RemoveAt(q, i) == [j \in 1..(Len(q) - 1) |-> IF j < i THEN q[j] ELSE q[j + 1]]

\* finally { setIsUpdating(false); setIsOpen(false); window.location.reload() }
HandleSubmitFinally ==
    /\ isUpdating' = FALSE
    /\ isOpen' = FALSE
    /\ reloaded' = TRUE

\* the POST of submission i resolves (whatever its HTTP status, which is not
\* read): the writes to local storage, then the finally block
PostResolves(i) ==
    /\ ~reloaded
    /\ i \in 1..Len(posts)
    /\ posts' = RemoveAt(posts, i)
    /\ localStorage' = PersistSelections(localStorage, posts[i])
    /\ lastEvent' = Event("handleSubmit", "saved")
    /\ HandleSubmitFinally
    /\ UNCHANGED <<documentVars, selectionVars, isLoading, fetching, formEdits,
                   loaderVars>>

\* PostRejects with the close and the reload inside the try block
PostRejects_NoClose(i) ==
    /\ ~reloaded
    /\ i \in 1..Len(posts)
    /\ posts' = RemoveAt(posts, i)
    /\ lastEvent' = Event("handleSubmit", "caught")
    /\ isUpdating' = FALSE
    /\ UNCHANGED <<isOpen, reloaded, documentVars, selectionVars, isLoading,
                   localStorage, fetching, formEdits, loaderVars>>

\* PostRejects with the local-storage writes placed after the try block
PostRejects_Persists(i) ==
    /\ ~reloaded
    /\ i \in 1..Len(posts)
    /\ localStorage' = PersistSelections(localStorage, posts[i])
    /\ posts' = RemoveAt(posts, i)
    /\ lastEvent' = Event("handleSubmit", "caught")
    /\ HandleSubmitFinally
    /\ UNCHANGED <<documentVars, selectionVars, isLoading, fetching,
                   formEdits, loaderVars>>

\* the POST of submission i rejects: catch { console.error(...) }, then the
\* finally block
PostRejects(i) ==
    /\ ~reloaded
    /\ i \in 1..Len(posts)
    /\ posts' = RemoveAt(posts, i)
    /\ lastEvent' = Event("handleSubmit", "caught")
    /\ HandleSubmitFinally
    /\ UNCHANGED <<documentVars, selectionVars, isLoading, localStorage,
                   fetching, formEdits, loaderVars>>

----------------------------------------------------------------------------
\* Provider Loader (openrouter.ts)

\* the constructed ChatOpenAI client, as the arguments it was given
ChatOpenAI(key, referer, title) ==
    [openAIApiKey |-> key,
     modelName |-> "google/gemini-2.0-flash-thinking-exp:free",
     temperature |-> "0.7",
     baseURL |-> "https://openrouter.ai/api/v1",
     defaultHeaders |-> [HTTPReferer |-> referer, XTitle |-> title]]

\* ChatModelsLiteral with the two header values exchanged
ChatModelsLiteral_HeadersExchanged(key, referer, title) ==
    <<[key |-> "gemini-2",
       displayName |-> "Gemini 2.0",
       model |-> ChatOpenAI(key, OrElse(title, ""), OrElse(referer, ""))]>>

\* the object literal chatModels
ChatModelsLiteral(key, referer, title) ==
    <<[key |-> "gemini-2",
       displayName |-> "Gemini 2.0",
       model |-> ChatOpenAI(key, OrElse(referer, ""), OrElse(title, ""))]>>

\* loadOpenRouterChatModels without the try / catch around the construction
loadOpenRouterChatModels_Propagates(constructorThrows) ==
    /\ IF ~Truthy(openRouterApiKey)
       THEN /\ loaderPc' = "returned"
            /\ loaderResult' = <<>>
            /\ clientsConstructed' = FALSE
       ELSE /\ clientsConstructed' = TRUE
            /\ IF constructorThrows
               THEN /\ loaderPc' = "threw"
                    /\ UNCHANGED loaderResult
               ELSE /\ loaderPc' = "returned"
                    /\ loaderResult' =
                           ChatModelsLiteral(openRouterApiKey, httpReferer, appName)
    /\ loaderLogged' = FALSE
    /\ UNCHANGED <<openRouterApiKey, httpReferer, appName, editorVars>>

\* loadOpenRouterChatModels with the guard `openRouterApiKey == null`
loadOpenRouterChatModels_NullGuard(constructorThrows) ==
    /\ loaderPc' = "returned"
    /\ IF openRouterApiKey = Null
       THEN /\ loaderResult' = <<>>
            /\ clientsConstructed' = FALSE
            /\ loaderLogged' = FALSE
       ELSE /\ clientsConstructed' = TRUE
            /\ IF constructorThrows
               THEN /\ loaderResult' = <<>>
                    /\ loaderLogged' = TRUE
               ELSE /\ loaderResult' =
                           ChatModelsLiteral(openRouterApiKey, httpReferer, appName)
                    /\ loaderLogged' = FALSE
    /\ UNCHANGED <<openRouterApiKey, httpReferer, appName, editorVars>>

\* one call of loadOpenRouterChatModels; constructorThrows is whether
\* `new ChatOpenAI` throws
loadOpenRouterChatModels(constructorThrows) ==
    /\ loaderPc' = "returned"
    /\ IF ~Truthy(openRouterApiKey)
       \* if (!openRouterApiKey) return {};
       THEN /\ loaderResult' = <<>>
            /\ clientsConstructed' = FALSE
            /\ loaderLogged' = FALSE
       ELSE /\ clientsConstructed' = TRUE
            /\ IF constructorThrows
               THEN /\ loaderResult' = <<>>
                    /\ loaderLogged' = TRUE
               ELSE /\ loaderResult' =
                           ChatModelsLiteral(openRouterApiKey, httpReferer, appName)
                    /\ loaderLogged' = FALSE
    /\ UNCHANGED <<openRouterApiKey, httpReferer, appName, editorVars>>

Init_Loader ==
    /\ loaderPc = "idle"
    /\ loaderResult = <<>>
    /\ clientsConstructed = FALSE
    /\ loaderLogged = FALSE

----------------------------------------------------------------------------
\* Specifications

ApiKeys == {Null, "", "sk-1", "sk-2"}
Referers == {Null, "", "https://r1", "https://r2"}
AppNames == {Null, "", "MyApp"}

\* the Settings Editor, in a browser whose local storage holds what earlier
\* sessions left
Init ==
    /\ Init_Editor
    /\ localStorage \in InitialStorages
    /\ Init_Loader
    /\ openRouterApiKey = Null
    /\ httpReferer = Null
    /\ appName = Null

Next ==
    \/ Open
    \/ Close
    \/ FetchRejects
    \/ \E data \in Docs : FetchResolves(data)
    \/ \E v \in ProviderIds : SelectChatProvider(v)
    \/ \E v \in ModelIds : SelectChatModel(v)
    \/ \E v \in TypedValues : TypeChatModel(v)
    \/ \E v \in TypedValues : TypeCustomOpenAIApiKey(v)
    \/ \E v \in TypedValues : TypeCustomOpenAIBaseURL(v)
    \/ \E v \in ProviderIds : SelectEmbeddingProvider(v)
    \/ \E v \in ModelIds : SelectEmbeddingModel(v)
    \/ \E f \in ScalarFields, v \in TypedValues : EditConfigField(f, v)
    \/ Submit
    \/ \E i \in 1..Len(posts) : PostResolves(i)
    \/ \E i \in 1..Len(posts) : PostRejects(i)

Spec == Init /\ [][Next]_vars

\* a POST /config in flight settles: the browser answers every request with
\* a response or a network error
PostSettles == \E i \in 1..Len(posts) : PostResolves(i) \/ PostRejects(i)

FairSpec == Spec /\ WF_vars(PostSettles)

\* the Provider Loader, under every configuration
LoaderInit ==
    /\ Init_Editor
    /\ localStorage = FreshStorage
    /\ Init_Loader
    /\ openRouterApiKey \in ApiKeys
    /\ httpReferer \in Referers
    /\ appName \in AppNames

LoaderNext == \E constructorThrows \in BOOLEAN : loadOpenRouterChatModels(constructorThrows)

LoaderSpec == LoaderInit /\ [][LoaderNext]_vars

----------------------------------------------------------------------------
\* Properties of the Settings Editor

\* C1: a save that was started always ends: when its POST leaves flight,
\* resolved or rejected, the dialog is closed, isUpdating is cleared and the
\* page reload is triggered; a rejected POST is logged and changes nothing
\* else (no error state, no write to local storage); and under FairSpec every
\* started save reaches that end.
C1_SaveEndsClosedAndReloaded ==
    /\ [][Len(posts') < Len(posts) =>
            /\ ~isOpen'
            /\ ~isUpdating'
            /\ reloaded'
            /\ lastEvent'.op = "handleSubmit"
            /\ lastEvent'.error \in {"saved", "caught"}]_vars
    /\ [][(Len(posts') < Len(posts) /\ lastEvent'.error = "caught") =>
            UNCHANGED <<documentVars, selectionVars, isLoading, localStorage,
                        fetching>>]_vars
    /\ (posts /= <<>>) ~> (reloaded /\ ~isOpen /\ posts = <<>>)

\* a save whose POST was rejected has closed the dialog and triggered the reload
C1_Witness ==
    /\ lastEvent = Event("handleSubmit", "caught")
    /\ reloaded
    /\ ~isOpen
    /\ posts = <<>>

\* C2 as stated: after a failed GET /config the editor is still in Loading
\* (spinner shown, form hidden, save disabled).
C2_StaysLoadingAfterFailure ==
    lastEvent = Event("fetchConfig", "caught") =>
        (isLoading /\ SaveDisabled /\ ~FormShown)

\* C2 amended: a failed GET /config is logged and ends Loading: isLoading is
\* cleared and nothing else changes, so no retry is issued, no error state is
\* entered, and the form is shown afterwards only if an earlier fetch had
\* already loaded a document.
C2_FailureEndsLoading ==
    [][lastEvent' = Event("fetchConfig", "caught") =>
          \/ UNCHANGED vars
          \/ /\ ~isLoading'
             /\ fetching' = fetching - 1
             /\ UNCHANGED <<isOpen, documentVars, selectionVars, isUpdating,
                            localStorage, posts, reloaded>>]_vars

\* the only fetch failed: the dialog is open with neither spinner nor form,
\* and the save button is enabled
C2_Witness ==
    /\ lastEvent = Event("fetchConfig", "caught")
    /\ isOpen
    /\ fetching = 0
    /\ config = NullConfig
    /\ ~SpinnerShown
    /\ ~FormShown
    /\ ~SaveDisabled

\* C3 as stated: while a GET /config is in flight the form is not shown and
\* the save button is disabled.
C3_InFlightNotInteractive == fetching > 0 => (~FormShown /\ SaveDisabled)

\* what C4 states: the stored value if non-empty, else the first key, else ''
C4_Provider(stored, providers) ==
    IF stored \notin {Null, ""} THEN stored
    ELSE IF providers /= <<>> THEN Head(providers).key
    ELSE ""

\* what C4 states: the stored value if non-empty, else the name of the first
\* model of the resolved provider's list, else ''
C4_Model(stored, providers, provider) ==
    IF stored \notin {Null, ""} THEN stored
    ELSE IF \E e \in {providers[i] : i \in 1..Len(providers)} :
                e.key = provider /\ e.models /= <<>>
    THEN LET e == CHOOSE e \in {providers[i] : i \in 1..Len(providers)} :
                      e.key = provider
         IN Head(e.models).name
    ELSE ""

\* C4: right after a successful fetch the four selections are the defaults
\* C4 states, for chat and embedding alike; in particular {a: [x], b: []}
\* with nothing stored resolves to a and x, and a resolved provider with an
\* empty list resolves the model to ''.
C4_DefaultsOnReady ==
    lastEvent = Event("fetchConfig", "none") =>
        /\ selectedChatModelProvider =
               C4_Provider(localStorage["chatModelProvider"],
                           config.chatModelProviders)
        /\ selectedChatModel =
               C4_Model(localStorage["chatModel"], config.chatModelProviders,
                        selectedChatModelProvider)
        /\ selectedEmbeddingModelProvider =
               C4_Provider(localStorage["embeddingModelProvider"],
                           config.embeddingModelProviders)
        /\ selectedEmbeddingModel =
               C4_Model(localStorage["embeddingModel"],
                        config.embeddingModelProviders,
                        selectedEmbeddingModelProvider)
        /\ (localStorage = FreshStorage /\ config = DocA) =>
               (selectedChatModelProvider = "a" /\ selectedChatModel = "x")
        /\ (localStorage = FreshStorage /\ config = DocB) =>
               (selectedChatModelProvider = "b" /\ selectedChatModel = "")

\* the document {a: [x], b: []} fetched with nothing stored
C4_Witness ==
    /\ lastEvent = Event("fetchConfig", "none")
    /\ localStorage = FreshStorage
    /\ config = DocA
    /\ selectedChatModelProvider = "a"
    /\ selectedChatModel = "x"
    /\ selectedEmbeddingModelProvider = "a"
    /\ selectedEmbeddingModel = "x"

\* the value now selected for a selection key of local storage
C5_Current(k) ==
    CASE k = "chatModelProvider" -> selectedChatModelProvider
      [] k = "chatModel" -> selectedChatModel
      [] k = "embeddingModelProvider" -> selectedEmbeddingModelProvider
      [] k = "embeddingModel" -> selectedEmbeddingModel

\* a POST has just resolved
C5_Saved == Len(posts') < Len(posts) /\ lastEvent'.error = "saved"

\* C5 as stated: when the POST completes, the four selection keys are
\* overwritten with the current selection iff it is non-empty, the two
\* custom-endpoint keys with the current field values, and no other key.
C5_PersistsCurrentSelections ==
    [][C5_Saved =>
          /\ \A k \in SelectionKeys :
                 localStorage'[k] =
                     IF C5_Current(k) \notin {Null, ""} THEN C5_Current(k)
                     ELSE localStorage[k]
          /\ localStorage'["openAIApiKey"] = customOpenAIApiKey
          /\ localStorage'["openAIBaseURL"] = customOpenAIBaseURL
          /\ localStorage'[OtherKey] = localStorage[OtherKey]]_vars

\* C5 amended: the values written are those of the moment the save was
\* triggered (what handleSubmit captured), not those current when the POST
\* completes; for them, each selection key is overwritten iff the captured
\* selection is non-empty, the two custom-endpoint keys always, no other key.
C5_PersistsSubmittedSelections ==
    /\ [][Len(posts') > Len(posts) =>
            /\ posts' = Append(posts, posts'[Len(posts')])
            /\ \A k \in SelectionKeys : posts'[Len(posts')][k] = C5_Current(k)
            /\ posts'[Len(posts')].openAIApiKey = customOpenAIApiKey
            /\ posts'[Len(posts')].openAIBaseURL = customOpenAIBaseURL]_vars
    /\ [][C5_Saved =>
            \E i \in 1..Len(posts) :
                /\ posts' = RemoveAt(posts, i)
                /\ \A k \in SelectionKeys :
                       localStorage'[k] =
                           IF posts[i][k] \notin {Null, ""} THEN posts[i][k]
                           ELSE localStorage[k]
                /\ \A k \in CustomKeys : localStorage'[k] = posts[i][k]
                /\ localStorage'[OtherKey] = localStorage[OtherKey]]_vars

\* a save made with an empty chat selection and empty custom fields: the
\* chat keys keep their stored value (none), the custom keys are overwritten
\* with ''
C5_Witness ==
    /\ lastEvent = Event("handleSubmit", "saved")
    /\ config = DocC
    /\ localStorage["chatModelProvider"] = Null
    /\ localStorage["chatModel"] = Null
    /\ localStorage["embeddingModelProvider"] = "b"
    /\ localStorage["embeddingModel"] = Null
    /\ localStorage["openAIApiKey"] = ""
    /\ localStorage["openAIBaseURL"] = ""

\* C6 as stated: selecting a provider other than 'custom_openai', in either
\* picker, sets the model to the name of the first model of that provider.
C6_ProviderSelectionResetsModel ==
    /\ (lastEvent.op = "selectChatProvider"
            /\ selectedChatModelProvider /= CustomOpenAI) =>
           LET models == Get(config.chatModelProviders, selectedChatModelProvider)
           IN models /= <<>> /\ selectedChatModel = Head(models).name
    /\ (lastEvent.op = "selectEmbeddingProvider"
            /\ selectedEmbeddingModelProvider /= CustomOpenAI) =>
           LET models == Get(config.embeddingModelProviders,
                             selectedEmbeddingModelProvider)
           IN models /= <<>> /\ selectedEmbeddingModel = Head(models).name

\* C7 as stated: selecting 'custom_openai' clears the model, in either picker.
C7_CustomClearsModelInEitherPicker ==
    /\ (lastEvent.op = "selectChatProvider"
            /\ selectedChatModelProvider = CustomOpenAI) =>
           selectedChatModel = ""
    /\ (lastEvent.op = "selectEmbeddingProvider"
            /\ selectedEmbeddingModelProvider = CustomOpenAI) =>
           selectedEmbeddingModel = ""

\* C7 amended: selecting 'custom_openai' in the chat provider picker clears
\* the chat model and raises no error, whatever was selected before and
\* whatever the document lists for it.
C7_CustomClearsChatModel ==
    (lastEvent.op = "selectChatProvider"
         /\ selectedChatModelProvider = CustomOpenAI) =>
        (selectedChatModel = "" /\ lastEvent.error = "none")

\* 'custom_openai', which the document lists with a model, selected in the
\* chat picker while the model y was selected
C7_Witness ==
    /\ lastEvent = Event("selectChatProvider", "none")
    /\ localStorage = StoredA
    /\ config = DocB
    /\ selectedChatModelProvider = CustomOpenAI
    /\ selectedChatModel = ""

\* C8 as stated: with a provider whose model list is empty, resolving the
\* defaults and selecting that provider raise no error, leave the editor
\* Ready and leave the model selection empty.
C8_EmptyListIsNoError ==
    /\ (lastEvent.op = "fetchConfig" /\ lastEvent.error = "none") =>
           /\ config /= NullConfig /\ ~isLoading
           /\ (HasKey(config.chatModelProviders, selectedChatModelProvider)
                   /\ Get(config.chatModelProviders, selectedChatModelProvider) = <<>>
                   /\ localStorage["chatModel"] \in {Null, ""}) =>
                  selectedChatModel = ""
           /\ (HasKey(config.embeddingModelProviders, selectedEmbeddingModelProvider)
                   /\ Get(config.embeddingModelProviders,
                          selectedEmbeddingModelProvider) = <<>>
                   /\ localStorage["embeddingModel"] \in {Null, ""}) =>
                  selectedEmbeddingModel = ""
    /\ (lastEvent.op = "selectChatProvider"
            /\ Get(config.chatModelProviders, selectedChatModelProvider) = <<>>) =>
           /\ lastEvent.error = "none"
           /\ config /= NullConfig /\ ~isLoading
           /\ selectedChatModel = ""
    /\ (lastEvent.op = "selectEmbeddingProvider"
            /\ Get(config.embeddingModelProviders,
                   selectedEmbeddingModelProvider) = <<>>) =>
           /\ lastEvent.error = "none"
           /\ config /= NullConfig /\ ~isLoading
           /\ selectedEmbeddingModel = ""

----------------------------------------------------------------------------
\* Properties of the Provider Loader

\* C9: a call made with the API key absent or empty returns the empty mapping,
\* constructs no client and logs no error, whatever the referer and the
\* application name are.
C9_NoKeyReturnsEmpty ==
    (loaderPc = "returned" /\ openRouterApiKey \in {Null, ""}) =>
        (loaderResult = <<>> /\ ~clientsConstructed /\ ~loaderLogged)

\* a call returned with the empty key and both attribution values configured
C9_Witness ==
    /\ loaderPc = "returned"
    /\ openRouterApiKey = ""
    /\ httpReferer = "https://r1"
    /\ appName = "MyApp"
    /\ loaderResult = <<>>

\* a call returned after a construction that did not throw
C10_Constructed ==
    loaderPc = "returned" /\ clientsConstructed /\ ~loaderLogged

\* C10 as stated: the one entry, keyed 'gemini-2', has a display name and
\* headers that match the configured attribution values.
C10_EntryMatchesAttribution ==
    C10_Constructed =>
        /\ Len(loaderResult) = 1
        /\ loaderResult[1].key = "gemini-2"
        /\ loaderResult[1].displayName = appName
        /\ loaderResult[1].model.defaultHeaders.HTTPReferer = httpReferer
        /\ loaderResult[1].model.defaultHeaders.XTitle = appName

\* C10 amended: the one entry, keyed 'gemini-2', has the fixed display name
\* 'Gemini 2.0' and is bound to the configured key; its HTTP-Referer header
\* is the configured referer and its X-Title header the configured
\* application name, an absent value being sent as ''.
C10_OneEntryWithAttributionHeaders ==
    C10_Constructed =>
        /\ Len(loaderResult) = 1
        /\ loaderResult[1].key = "gemini-2"
        /\ loaderResult[1].displayName = "Gemini 2.0"
        /\ loaderResult[1].model.openAIApiKey = openRouterApiKey
        /\ loaderResult[1].model.defaultHeaders.HTTPReferer =
               (IF httpReferer = Null THEN "" ELSE httpReferer)
        /\ loaderResult[1].model.defaultHeaders.XTitle =
               (IF appName = Null THEN "" ELSE appName)

\* a call with a key and both attribution values returned its entry
C10_Witness ==
    /\ C10_Constructed
    /\ openRouterApiKey = "sk-1"
    /\ httpReferer = "https://r1"
    /\ appName = "MyApp"
    /\ Len(loaderResult) = 1

\* C11: a call never ends with an error: it returns, with the empty mapping
\* or with the one entry keyed 'gemini-2'; the empty mapping of a call that
\* attempted the construction is the caught failure, which was logged, and
\* nothing is logged otherwise.
C11_ConstructionFailureIsCaught ==
    loaderPc /= "idle" =>
        /\ loaderPc = "returned"
        /\ \/ loaderResult = <<>>
           \/ Len(loaderResult) = 1 /\ loaderResult[1].key = "gemini-2"
        /\ loaderLogged <=> (clientsConstructed /\ loaderResult = <<>>)
        /\ (openRouterApiKey \notin {Null, ""}) => clientsConstructed

\* a call with a key whose construction threw: logged, empty mapping returned
C11_Witness ==
    /\ loaderPc = "returned"
    /\ openRouterApiKey = "sk-1"
    /\ clientsConstructed
    /\ loaderLogged
    /\ loaderResult = <<>>

-----------------------------------------------------------------------------
\* Properties of the save guard

\* a step that issues a POST /config
C12_Issues == Len(posts') > Len(posts)

\* a step of handleSubmit taken while no document is held
C12_SaveWithoutDocument ==
    /\ config = NullConfig
    /\ lastEvent'.op = "handleSubmit"
    /\ lastEvent' /= lastEvent \/ lastEvent'.error = "returned"

\* C12: a POST /config is issued only from the shown form (a document is held
\* and the dialog is not loading) and only while no save is in flight; the
\* step issues exactly one POST, whose body is the document held at that
\* moment, and marks the save as in flight, so at most one POST is in flight
\* at any time; a save action taken while no document is held issues no POST,
\* writes no local key, does not close the dialog and does not reload.
C12_SaveGuard ==
    /\ [](Len(posts) <= 1)
    /\ [](posts /= <<>> => (isUpdating /\ posts[1].body /= NullConfig))
    /\ [][C12_Issues =>
            /\ FormShown
            /\ ~isUpdating
            /\ posts = <<>>
            /\ posts' = <<Submission>>
            /\ posts'[1].body = config
            /\ isUpdating']_vars
    /\ [][C12_SaveWithoutDocument =>
            /\ lastEvent'.error = "returned"
            /\ UNCHANGED <<posts, localStorage, isOpen, reloaded,
                           isUpdating>>]_vars

\* an edited document has been submitted and its POST is in flight
C12_Witness ==
    /\ lastEvent = Event("handleSubmit", "none")
    /\ Len(posts) = 1
    /\ posts[1].body = config
    /\ EditedFields(config) /= {}
    /\ isUpdating

\* the save button was pressed after a failed fetch left no document
C12_WitnessNoDocument ==
    /\ lastEvent = Event("handleSubmit", "returned")
    /\ config = NullConfig
    /\ isOpen
    /\ posts = <<>>

-----------------------------------------------------------------------------
\* Properties of a failed save

\* a step in which the POST of a save leaves flight by throwing
C13_PostThrows == Len(posts') < Len(posts) /\ lastEvent'.error = "caught"

\* C13: local storage changes only in the step in which a POST /config
\* completes without throwing, so until then it holds what earlier sessions
\* left; the step in which the POST throws writes none of the six keys and
\* leaves every stored value as it was, and still closes the dialog and
\* triggers the reload.
C13_FailedSaveLeavesStorage ==
    /\ [][localStorage' /= localStorage =>
            /\ Len(posts') < Len(posts)
            /\ lastEvent' = Event("handleSubmit", "saved")]_vars
    /\ [][C13_PostThrows =>
            /\ \A k \in StorageKeys : localStorage'[k] = localStorage[k]
            /\ ~isOpen'
            /\ reloaded']_vars
    /\ [](lastEvent /= Event("handleSubmit", "saved") =>
            localStorage \in InitialStorages)

\* a save was rejected whose selections a completed save would have written:
\* the storage is as it was, the dialog is closed and the page reloads
C13_Witness ==
    /\ lastEvent = Event("handleSubmit", "caught")
    /\ PersistSelections(localStorage, Submission) /= localStorage
    /\ localStorage \in InitialStorages
    /\ ~isOpen
    /\ reloaded

====
